---- MODULE Spec2Model ----
(***************************************************************************)
(* A model of rust-fcb1010 (src/src/main.rs): the Preset record and its    *)
(* 16-byte layout, the SysExMessage codec (encode / decode with the        *)
(* 8-bit <-> 7-bit transcoding) and the MidiApp receive session that       *)
(* shares one SysExMessage between the UI thread and a receive thread.     *)
(*                                                                         *)
(* Two specifications are defined over the same variables:                 *)
(*   CodecSpec  a caller that builds a buffer, decodes it, edits the bank, *)
(*              encodes it and decodes the result again;                   *)
(*   Spec       MidiApp: Receive / Cancel / Send / edits on the UI thread, *)
(*              the midir callback and the spawned receive threads.        *)
(***************************************************************************)
EXTENDS Integers, Sequences, FiniteSets, TLC

(***************************************************************************)
(* Bounds of the model.                                                    *)
(***************************************************************************)
\* longest buffer built byte by byte
MaxShortLen == 6
\* number of field edits applied to a bank
MaxEdits == 1
\* number of receive sessions started
MaxSessions == 2
\* number of messages the MIDI port delivers
MaxArrivals == 1

(***************************************************************************)
(* Constants of the program.                                               *)
(***************************************************************************)
\* 0xf0
SYSEX_START == 240
\* 0xf7
SYSEX_END == 247
\* 0x0f, "Hacked patch"
COMMAND_BYTE == 15
\* data.len() < 6
MIN_LENGTH == 6
\* first payload byte of a message
PAYLOAD_START == 7
\* [Preset; 100]
NUM_PRESETS == 100
\* [u8; 16]
PRESET_SIZE == 16
\* 0x640
PRESET_AREA == 1600
\* 0x7e0
GLOBAL_CHANNELS_OFFSET == 2016
\* [u8; 10]
NUM_GLOBAL_CHANNELS == 10
\* 0x7ea
PATCH_SIZE == 2026

VARIABLES
    \* the codec's caller
    step,               \* "input" | "bank" | "failed" | "encoded" | "redecoded"
    data,               \* the buffer handed to decode
    result,             \* what decode(data) returned
    patched,            \* encode's patched_data: the 8-bit payload it filled
    encoded,            \* what encode returned
    redecoded,          \* what decode returned for encode's output
    \* shared by both specifications
    sysex_message,      \* the SysExMessage (the bank)
    edits,              \* number of field edits made
    \* MidiApp
    mutex,              \* holder of sysex_message's Mutex: 0 is free
    receiving_sysex,
    midi_in_connection, \* 0 is None, else the session whose connection is open
    sessions,           \* receive sessions started so far
    chan,               \* session -> messages sent by its callback, not yet received
    pc,                 \* session -> position of its receive thread
    local,              \* session -> the thread's message, then its decoded bank
    arrivals,           \* messages delivered by the port so far
    cancelled           \* sessions cancelled before any message had arrived

codecVars == <<step, data, result, patched, encoded, redecoded>>
appVars == <<mutex, receiving_sysex, midi_in_connection, sessions, chan, pc,
             local, arrivals, cancelled>>
vars == <<codecVars, sysex_message, edits, appVars>>

(***************************************************************************)
(* u8 arithmetic.                                                          *)
(***************************************************************************)
Pow2(n) == 2 ^ n

Min(a, b) == IF a < b THEN a ELSE b

\* a >> n
Shr(a, n) == a \div Pow2(n)

\* a << n on u8
Shl(a, n) == (a * Pow2(n)) % 256

\* a | b
BitOr(a, b) ==
    LET bit(k) == IF Shr(a, k) % 2 = 1 \/ Shr(b, k) % 2 = 1 THEN Pow2(k) ELSE 0
    IN  bit(0) + bit(1) + bit(2) + bit(3) + bit(4) + bit(5) + bit(6) + bit(7)

\* a & b
BitAnd(a, b) ==
    LET bit(k) == IF Shr(a, k) % 2 = 1 /\ Shr(b, k) % 2 = 1 THEN Pow2(k) ELSE 0
    IN  bit(0) + bit(1) + bit(2) + bit(3) + bit(4) + bit(5) + bit(6) + bit(7)

(***************************************************************************)
(* Preset.                                                                 *)
(***************************************************************************)
PresetNew ==
    [program_changes    |-> <<0, 0, 0, 0, 0>>,
     control_changes    |-> << <<0, 0>>, <<0, 0>> >>,
     expression_pedal_a |-> <<0, 0, 0>>,
     expression_pedal_b |-> <<0, 0, 0>>,
     note               |-> 0]

\* Mutant of from_bytes: note read from the last expression-pedal byte.
from_bytes_shifted(bytes) ==
    [program_changes    |-> <<bytes[1], bytes[2], bytes[3], bytes[4], bytes[5]>>,
     control_changes    |-> << <<bytes[6], bytes[7]>>, <<bytes[8], bytes[9]>> >>,
     expression_pedal_a |-> <<bytes[10], bytes[11], bytes[12]>>,
     expression_pedal_b |-> <<bytes[13], bytes[14], bytes[15]>>,
     note               |-> bytes[15]]

\* bytes is 1-based here: bytes[k + 1] is the source's bytes[k]
from_bytes(bytes) ==
    [program_changes    |-> <<bytes[1], bytes[2], bytes[3], bytes[4], bytes[5]>>,
     control_changes    |-> << <<bytes[6], bytes[7]>>, <<bytes[8], bytes[9]>> >>,
     expression_pedal_a |-> <<bytes[10], bytes[11], bytes[12]>>,
     expression_pedal_b |-> <<bytes[13], bytes[14], bytes[15]>>,
     note               |-> bytes[16]]

\* Mutant of to_bytes: the note written before expression pedal B.
to_bytes_swapped(self) ==
    <<self.program_changes[1],
      self.program_changes[2],
      self.program_changes[3],
      self.program_changes[4],
      self.program_changes[5],
      self.control_changes[1][1],
      self.control_changes[1][2],
      self.control_changes[2][1],
      self.control_changes[2][2],
      self.expression_pedal_a[1],
      self.expression_pedal_a[2],
      self.expression_pedal_a[3],
      self.note,
      self.expression_pedal_b[1],
      self.expression_pedal_b[2],
      self.expression_pedal_b[3]>>

to_bytes(self) ==
    <<self.program_changes[1],
      self.program_changes[2],
      self.program_changes[3],
      self.program_changes[4],
      self.program_changes[5],
      self.control_changes[1][1],
      self.control_changes[1][2],
      self.control_changes[2][1],
      self.control_changes[2][2],
      self.expression_pedal_a[1],
      self.expression_pedal_a[2],
      self.expression_pedal_a[3],
      self.expression_pedal_b[1],
      self.expression_pedal_b[2],
      self.expression_pedal_b[3],
      self.note>>

(***************************************************************************)
(* SysExMessage.  original_data is an Option: <<>> is None, <<d>> Some(d). *)
(***************************************************************************)
Default ==
    [start_byte      |-> SYSEX_START,
     manufacturer_id |-> <<0, 32, 50>>,
     global_channel  |-> 0,
     device_id       |-> 12,
     presets         |-> [i \in 0..(NUM_PRESETS - 1) |-> PresetNew],
     global_channels |-> [i \in 1..NUM_GLOBAL_CHANNELS |-> 0],
     end_byte        |-> SYSEX_END,
     original_data   |-> <<>>]

\* Outcomes of a call: a value, a typed error, or a panic (an index or a
\* slice out of range).
Ok(v) == [tag |-> "Ok", err |-> "", value |-> <<v>>]
Err(e) == [tag |-> "Err", err |-> e, value |-> <<>>]
Panic == [tag |-> "Panic", err |-> "", value |-> <<>>]
NotCalled == [tag |-> "None", err |-> "", value |-> <<>>]

(***************************************************************************)
(* encode.                                                                 *)
(***************************************************************************)
\* Mutant of PatchBuffer: the fresh buffer stops at the global channels' offset.
PatchBufferSmall(self) ==
    IF self.original_data # <<>>
    THEN LET od == self.original_data[1]
         IN  IF Len(od) - 1 < PAYLOAD_START
             THEN Panic
             ELSE Ok(SubSeq(od, PAYLOAD_START + 1, Len(od) - 1))
    ELSE Ok([k \in 1..GLOBAL_CHANNELS_OFFSET |-> 0])

\* let mut patched_data = ...: the buffer before the presets are written.
\* data[7..data.len() - 1] panics when the range is reversed.
PatchBuffer(self) ==
    IF self.original_data # <<>>
    THEN LET od == self.original_data[1]
         IN  IF Len(od) - 1 < PAYLOAD_START
             THEN Panic
             ELSE Ok(SubSeq(od, PAYLOAD_START + 1, Len(od) - 1))
    ELSE Ok([k \in 1..PATCH_SIZE |-> 0])

\* The two loops that write the presets and the global channels into
\* patched_data; an index past the buffer's end panics.
patched_data(self) ==
    LET buf == PatchBuffer(self)
    IN  IF buf.tag # "Ok"
        THEN Panic
        ELSE LET base == buf.value[1]
             IN  IF Len(base) < NUM_PRESETS * PRESET_SIZE
                     \/ Len(base) < GLOBAL_CHANNELS_OFFSET + NUM_GLOBAL_CHANNELS
                 THEN Panic
                 ELSE Ok([k \in 1..Len(base) |->
                            IF k <= NUM_PRESETS * PRESET_SIZE
                            THEN to_bytes(self.presets[(k - 1) \div PRESET_SIZE])
                                         [((k - 1) % PRESET_SIZE) + 1]
                            ELSE IF k > GLOBAL_CHANNELS_OFFSET
                                    /\ k <= GLOBAL_CHANNELS_OFFSET + NUM_GLOBAL_CHANNELS
                                 THEN self.global_channels[k - GLOBAL_CHANNELS_OFFSET]
                                 ELSE base[k]])

\* for (i, &byte) in chunk.iter().enumerate() { msb_byte |= (byte >> 7) << i; }
RECURSIVE MsbLoop(_, _, _)
MsbLoop(chunk, i, msb_byte) ==
    IF i < Len(chunk)
    THEN MsbLoop(chunk, i + 1, BitOr(msb_byte, Shl(Shr(chunk[i + 1], 7), i)))
    ELSE msb_byte

\* Mutant of EncodeGroup: the data bytes are not masked with 0x7F.
EncodeGroupNoMask(chunk) ==
    [i \in 1..8 |-> IF i <= Len(chunk) THEN chunk[i]
                    ELSE IF i = 8 THEN MsbLoop(chunk, 0, 0)
                    ELSE 0]

\* One turn of the 8-bit to 7-bit loop: the 8 bytes pushed for a chunk.
EncodeGroup(chunk) ==
    [i \in 1..8 |-> IF i <= Len(chunk) THEN BitAnd(chunk[i], 127)
                    ELSE IF i = 8 THEN MsbLoop(chunk, 0, 0)
                    ELSE 0]

\* while index < patched_data.len() { ... index += 7; }: the values index
\* takes, the chunk read at each, and the groups pushed one after the other.
EncodeChunks(buf) == {index \in 0..Len(buf) : index % 7 = 0 /\ index < Len(buf)}

Chunk(buf, index) == SubSeq(buf, index + 1, index + Min(7, Len(buf) - index))

\* Mutant of EncodeLoop: a short last chunk pushes only its own bytes and the
\* MSB byte.
EncodeLoopUnpadded(buf) ==
    LET full == Len(buf) \div 7
        rest == Len(buf) % 7
    IN  [j \in 1..(8 * full + (IF rest = 0 THEN 0 ELSE rest + 1)) |->
            IF j <= 8 * full
            THEN EncodeGroup(Chunk(buf, 7 * ((j - 1) \div 8)))[((j - 1) % 8) + 1]
            ELSE IF j - 8 * full <= rest
                 THEN BitAnd(buf[7 * full + (j - 8 * full)], 127)
                 ELSE MsbLoop(Chunk(buf, 7 * full), 0, 0)]

EncodeLoop(buf) ==
    [j \in 1..(8 * Cardinality(EncodeChunks(buf))) |->
        EncodeGroup(Chunk(buf, 7 * ((j - 1) \div 8)))[((j - 1) % 8) + 1]]

EncodeHeader(self) ==
    <<self.start_byte>> \o self.manufacturer_id
        \o <<self.global_channel, self.device_id, COMMAND_BYTE>>

encode(self) ==
    LET p == patched_data(self)
    IN  IF p.tag # "Ok"
        THEN Panic
        ELSE Ok(EncodeHeader(self) \o EncodeLoop(p.value[1]) \o <<self.end_byte>>)

(***************************************************************************)
(* decode.                                                                 *)
(***************************************************************************)
\* for i in 0..7 { chunk[i] | ((msb_byte >> i) & 0x01) << 7 }
DecodeGroup(chunk) ==
    [i \in 1..7 |-> BitOr(chunk[i], Shl(BitAnd(Shr(chunk[8], i - 1), 1), 7))]

\* while index + 8 <= data.len() - 1 { ... index += 8; }: the values index
\* takes, and the 7 bytes pushed to fixed_data at each.
DecodeChunks(buf) ==
    {index \in PAYLOAD_START..Len(buf) :
        (index - PAYLOAD_START) % 8 = 0 /\ index + 8 <= Len(buf) - 1}

FixedData(buf) ==
    <<>> \o [k \in 1..(7 * Cardinality(DecodeChunks(buf))) |->
        LET index == PAYLOAD_START + 8 * ((k - 1) \div 7)
        IN  DecodeGroup(SubSeq(buf, index + 1, index + 8))[((k - 1) % 7) + 1]]

\* decode after the three framing checks; the two slices of fixed_data panic
\* when it is shorter than 0x640, or than 0x7ea.
DecodeBody(buf) ==
    LET fixed_data == FixedData(buf)
    IN  IF Len(fixed_data) < PRESET_AREA
           \/ Len(fixed_data) < GLOBAL_CHANNELS_OFFSET + NUM_GLOBAL_CHANNELS
        THEN Panic
        ELSE Ok([start_byte      |-> SYSEX_START,
                 manufacturer_id |-> <<buf[2], buf[3], buf[4]>>,
                 global_channel  |-> buf[5],
                 device_id       |-> buf[6],
                 presets         |->
                     [i \in 0..(NUM_PRESETS - 1) |->
                        from_bytes(SubSeq(fixed_data, PRESET_SIZE * i + 1,
                                          PRESET_SIZE * i + PRESET_SIZE))],
                 global_channels |->
                     SubSeq(fixed_data, GLOBAL_CHANNELS_OFFSET + 1,
                            GLOBAL_CHANNELS_OFFSET + NUM_GLOBAL_CHANNELS),
                 end_byte        |-> SYSEX_END,
                 original_data   |-> <<buf>>])

\* Mutant of decode: the end marker is checked before the start marker.
decode_end_first(buf) ==
    IF Len(buf) < MIN_LENGTH THEN Err("InvalidDataLength")
    ELSE IF buf[Len(buf)] # SYSEX_END THEN Err("InvalidSysExEnd")
    ELSE IF buf[1] # SYSEX_START THEN Err("InvalidSysExStart")
    ELSE DecodeBody(buf)

\* Mutant of decode: the length check also rejects a 6-byte buffer.
decode_min7(buf) ==
    IF Len(buf) < MIN_LENGTH + 1 THEN Err("InvalidDataLength")
    ELSE IF buf[1] # SYSEX_START THEN Err("InvalidSysExStart")
    ELSE IF buf[Len(buf)] # SYSEX_END THEN Err("InvalidSysExEnd")
    ELSE DecodeBody(buf)

decode(buf) ==
    IF Len(buf) < MIN_LENGTH THEN Err("InvalidDataLength")
    ELSE IF buf[1] # SYSEX_START THEN Err("InvalidSysExStart")
    ELSE IF buf[Len(buf)] # SYSEX_END THEN Err("InvalidSysExEnd")
    ELSE DecodeBody(buf)

(***************************************************************************)
(* Inputs: buffers built byte by byte, and device dumps ("captures").  A   *)
(* capture is described by its 8-bit memory image; its wire bytes are the  *)
(* image's 7-bit groups, followed by `tail` extra bytes and the end byte.  *)
(***************************************************************************)
ShortBytes == {1, SYSEX_START, SYSEX_END}

ExampleImage ==
    <<128, 1, 255, 0, 127, 129, 2, 0, 0, 0, 0, 0, 0, 0, 0, 0,
      1, 2, 3, 4, 5, 10, 20, 30, 40, 1, 2, 3, 4, 5, 6, 7>>

\* byte j (from 0) of the memory image of a capture
Image(kind, j) ==
    CASE kind = "zero" -> 0
      [] kind = "ramp" -> (j * 37 + 11) % 256
      [] kind = "low" -> (j * 5 + 3) % 128
      [] kind = "example" ->
            IF j < Len(ExampleImage) THEN ExampleImage[j + 1]
            ELSE IF j >= GLOBAL_CHANNELS_OFFSET
                    /\ j < GLOBAL_CHANNELS_OFFSET + NUM_GLOBAL_CHANNELS
                 THEN j - GLOBAL_CHANNELS_OFFSET + 1
                 ELSE 0

CaptureHeader(kind) ==
    CASE kind = "zero" -> <<SYSEX_START, 0, 32, 50, 0, 12, 15>>
      [] kind = "ramp" -> <<SYSEX_START, 1, 2, 3, 5, 7, 14>>
      [] kind = "low" -> <<SYSEX_START, 0, 32, 50, 3, 12, 15>>
      [] kind = "example" -> <<SYSEX_START, 0, 32, 50, 1, 12, 15>>

\* byte k (from 0) of the capture's 7-bit region
WireByte(kind, k) ==
    LET g == k \div 8
        i == k % 8
        hi(t) == (Image(kind, 7 * g + t) \div 128) * Pow2(t)
    IN  IF i < 7 THEN Image(kind, 7 * g + i) % 128
        ELSE hi(0) + hi(1) + hi(2) + hi(3) + hi(4) + hi(5) + hi(6)

Capture(c) ==
    CaptureHeader(c[1]) \o [k \in 1..(8 * c[2]) |-> WireByte(c[1], k - 1)]
        \o [k \in 1..c[3] |-> 145] \o <<SYSEX_END>>

\* <<kind, full groups, trailing bytes>>: 290 groups carry the 0x7ea bytes,
\* 289 stop short of the global channels, 228 short of the presets.
Captures ==
    {<<"zero", 290, 0>>, <<"example", 290, 0>>, <<"ramp", 290, 4>>,
     <<"ramp", 290, 2>>,
     <<"low", 291, 0>>, <<"zero", 289, 0>>, <<"ramp", 289, 7>>,
     <<"zero", 228, 0>>, <<"zero", 0, 0>>}

(***************************************************************************)
(* The editor: a DragValue writes one field of one preset, clamped to      *)
(* 0..=127.                                                                *)
(***************************************************************************)
SetField(preset, f, v) ==
    CASE f[1] = "program_changes" -> [preset EXCEPT !.program_changes[f[2]] = v]
      [] f[1] = "controller" -> [preset EXCEPT !.control_changes[f[2]][1] = v]
      [] f[1] = "value" -> [preset EXCEPT !.control_changes[f[2]][2] = v]
      [] f[1] = "expression_pedal_a" -> [preset EXCEPT !.expression_pedal_a[f[2]] = v]
      [] f[1] = "expression_pedal_b" -> [preset EXCEPT !.expression_pedal_b[f[2]] = v]
      [] f[1] = "note" -> [preset EXCEPT !.note = v]

EditSlots == {0, NUM_PRESETS - 1}
EditFields == {<<"program_changes", 1>>, <<"value", 2>>,
               <<"expression_pedal_b", 3>>, <<"note", 0>>}
EditValues == {127}

EditBank(self, slot, f, v) ==
    [self EXCEPT !.presets[slot] = SetField(self.presets[slot], f, v)]

(***************************************************************************)
(* MidiApp's state when nothing has been started.                          *)
(***************************************************************************)
Sessions == 1..MaxSessions

AppInit ==
    /\ mutex = 0
    /\ receiving_sysex = FALSE
    /\ midi_in_connection = 0
    /\ sessions = 0
    /\ chan = [s \in Sessions |-> <<>>]
    /\ pc = [s \in Sessions |-> "idle"]
    /\ local = [s \in Sessions |-> NotCalled]
    /\ arrivals = 0
    /\ cancelled = {}

(***************************************************************************)
(* CodecSpec: a caller of the codec.                                       *)
(***************************************************************************)
CodecInit ==
    /\ step = "input"
    /\ data = <<>>
    /\ result = NotCalled
    /\ patched = NotCalled
    /\ encoded = NotCalled
    /\ redecoded = NotCalled
    /\ sysex_message = Default
    /\ edits = 0
    /\ AppInit

Push(b) ==
    /\ step = "input"
    /\ Len(data) < MaxShortLen
    /\ data' = Append(data, b)
    /\ UNCHANGED <<step, result, patched, encoded, redecoded, sysex_message,
                   edits, appVars>>

LoadCapture(c) ==
    /\ step = "input"
    /\ data = <<>>
    /\ data' = Capture(c)
    /\ UNCHANGED <<step, result, patched, encoded, redecoded, sysex_message,
                   edits, appVars>>

\* decode(&data); on Ok the caller replaces its bank, else it keeps it.
DecodeCall ==
    /\ step = "input"
    /\ result' = decode(data)
    /\ IF result'.tag = "Ok"
       THEN step' = "bank" /\ sysex_message' = result'.value[1]
       ELSE step' = "failed" /\ UNCHANGED sysex_message
    /\ UNCHANGED <<data, patched, encoded, redecoded, edits, appVars>>

\* the caller keeps the default-constructed bank
UseDefault ==
    /\ step = "input"
    /\ data = <<>>
    /\ step' = "bank"
    /\ UNCHANGED <<data, result, patched, encoded, redecoded, sysex_message,
                   edits, appVars>>

CodecEdit(slot, f, v) ==
    /\ step = "bank"
    /\ edits < MaxEdits
    /\ edits' = edits + 1
    /\ sysex_message' = EditBank(sysex_message, slot, f, v)
    /\ UNCHANGED <<codecVars, appVars>>

EncodeCall ==
    /\ step = "bank"
    /\ patched' = patched_data(sysex_message)
    /\ encoded' = encode(sysex_message)
    /\ step' = "encoded"
    /\ UNCHANGED <<data, result, redecoded, sysex_message, edits, appVars>>

Redecode ==
    /\ step = "encoded"
    /\ encoded.tag = "Ok"
    /\ redecoded' = decode(encoded.value[1])
    /\ step' = "redecoded"
    /\ UNCHANGED <<data, result, patched, encoded, sysex_message, edits, appVars>>

CodecNext ==
    \/ \E b \in ShortBytes : Push(b)
    \/ \E c \in Captures : LoadCapture(c)
    \/ DecodeCall
    \/ UseDefault
    \/ \E slot \in EditSlots, f \in EditFields, v \in EditValues : CodecEdit(slot, f, v)
    \/ EncodeCall
    \/ Redecode

CodecSpec == CodecInit /\ [][CodecNext]_vars

(***************************************************************************)
(* Properties of the codec, checked under CodecSpec.                       *)
(***************************************************************************)
Encoded == step \in {"encoded", "redecoded"}

\* every byte field of the bank is in 0..127
SevenBit(self) ==
    /\ \A slot \in 0..(NUM_PRESETS - 1) :
          \A k \in 1..PRESET_SIZE : to_bytes(self.presets[slot])[k] <= 127
    /\ \A i \in 1..NUM_GLOBAL_CHANNELS : self.global_channels[i] <= 127
    /\ \A i \in 1..3 : self.manufacturer_id[i] <= 127
    /\ self.global_channel <= 127
    /\ self.device_id <= 127

\* C1: for a bank that is the default or a decoded one, edited or not, with
\* all byte fields in 0..127, encode succeeds, decode of its output succeeds
\* and returns the same 100 presets in slot order, the same 10 global
\* channels and the same manufacturer id, global channel and device id.
C1_RoundTrip ==
    (Encoded /\ SevenBit(sysex_message)) =>
        /\ encoded.tag = "Ok"
        /\ step = "redecoded" =>
              /\ redecoded.tag = "Ok"
              /\ redecoded.value[1].presets = sysex_message.presets
              /\ redecoded.value[1].global_channels = sysex_message.global_channels
              /\ redecoded.value[1].manufacturer_id = sysex_message.manufacturer_id
              /\ redecoded.value[1].global_channel = sysex_message.global_channel
              /\ redecoded.value[1].device_id = sysex_message.device_id

\* a decoded 7-bit bank with non-zero global channels, edited, then round-tripped
C1_Witness ==
    /\ step = "redecoded"
    /\ SevenBit(sysex_message)
    /\ result.tag = "Ok"
    /\ edits > 0
    /\ sysex_message.global_channels[2] # 0
    /\ sysex_message.presets[NUM_PRESETS - 1].note = 127
    /\ redecoded.tag = "Ok"

\* C2: decode ends, for every buffer, with a bank or with one of the three
\* typed failures; it never panics.
C2_DecodeTotal ==
    /\ result.tag \in {"None", "Ok", "Err"}
    /\ result.tag = "Err" =>
          result.err \in {"InvalidDataLength", "InvalidSysExStart", "InvalidSysExEnd"}

\* C3: encoding the bank decode returned for a message, unedited, gives back
\* the message byte for byte.
C3_CaptureIdentity ==
    (Encoded /\ result.tag = "Ok" /\ edits = 0) =>
        /\ encoded.tag = "Ok"
        /\ Len(encoded.value[1]) = Len(data)
        /\ \A k \in 1..Len(data) : encoded.value[1][k] = data[k]

\* C4: in encode's output every byte between the 7-byte header and the end
\* marker is below 0x80; for each full 7-byte chunk of the payload the first 7
\* bytes of its group are the chunk's bytes modulo 128 and bit i of the 8th is
\* bit 7 of chunk byte i; decode's transcoding of the output gives the chunk
\* back; the chunk 80 01 FF 00 7F 81 02 gives the collector 0x25.
C4_BitPacking ==
    (Encoded /\ encoded.tag = "Ok") =>
        LET p == patched.value[1]
            e == encoded.value[1]
            f == FixedData(e)
        IN  /\ \A k \in (PAYLOAD_START + 1)..(Len(e) - 1) : e[k] < 128
            /\ \A c \in 0..((Len(p) \div 7) - 1) : \A i \in 0..6 :
                  /\ e[PAYLOAD_START + 8 * c + i + 1] = p[7 * c + i + 1] % 128
                  /\ (e[PAYLOAD_START + 8 * c + 8] \div Pow2(i)) % 2
                        = p[7 * c + i + 1] \div 128
                  /\ f[7 * c + i + 1] = p[7 * c + i + 1]
            /\ SubSeq(p, 1, 7) = <<128, 1, 255, 0, 127, 129, 2>> =>
                  e[PAYLOAD_START + 8] = 37

\* a bank with bit 7 set in its fields, whose first chunk is the example
C4_Witness ==
    /\ Encoded
    /\ encoded.tag = "Ok"
    /\ sysex_message.presets[0].program_changes = <<128, 1, 255, 0, 127>>
    /\ SubSeq(patched.value[1], 1, 7) = <<128, 1, 255, 0, 127, 129, 2>>
    /\ SubSeq(encoded.value[1], PAYLOAD_START + 1, PAYLOAD_START + 8)
          = <<0, 1, 127, 0, 127, 1, 2, 37>>

\* C5: decode returns invalid length iff the buffer has fewer than 6 bytes;
\* otherwise invalid start iff byte 0 is not 0xF0; otherwise invalid end iff
\* the last byte is not 0xF7; and a failure produces no bank.
C5_FramingOrder ==
    (result.tag # "None") =>
        /\ (result = Err("InvalidDataLength")) <=> (Len(data) < 6)
        /\ Len(data) >= 6 =>
              ((result = Err("InvalidSysExStart")) <=> (data[1] # 240))
        /\ (Len(data) >= 6 /\ data[1] = 240) =>
              ((result = Err("InvalidSysExEnd")) <=> (data[Len(data)] # 247))
        /\ result.tag = "Err" => (result.value = <<>> /\ sysex_message = Default)

\* a buffer that fails the start and the end check is reported with the start
C5_Witness ==
    /\ step = "failed"
    /\ Len(data) >= 6
    /\ data[1] # 240
    /\ data[Len(data)] # 247
    /\ result = Err("InvalidSysExStart")

\* C6 as stated: a non-empty buffer whose first byte is not 0xF0 fails with
\* invalid start marker whatever its length.
C6_StartWhateverLength ==
    (result.tag # "None" /\ Len(data) >= 1 /\ data[1] # 240) =>
        result = Err("InvalidSysExStart")

\* C6 amended: a buffer of at least 6 bytes whose first byte is not 0xF0 fails
\* with invalid start marker; a buffer of 1 to 5 bytes fails with invalid
\* length whatever its first byte.
C6_StartRejection ==
    (result.tag # "None") =>
        /\ (Len(data) >= 6 /\ data[1] # 240) => result = Err("InvalidSysExStart")
        /\ (Len(data) >= 1 /\ Len(data) <= 5) => result = Err("InvalidDataLength")

\* a 6-byte buffer with a wrong first byte and the right end marker
C6_Witness ==
    /\ step = "failed"
    /\ Len(data) = 6
    /\ data[1] # 240
    /\ data[6] = 247
    /\ result = Err("InvalidSysExStart")

CeilDiv7(n) == (n + 6) \div 7

\* C7 as stated: the last group of a payload of P bytes, P not a multiple of
\* 7, has only P mod 7 data bytes and the collector, so that the transcoded
\* payload has P + ceil(P/7) bytes.
C7_ShortLastGroup ==
    (Encoded /\ encoded.tag = "Ok") =>
        LET P == Len(patched.value[1])
        IN  Len(encoded.value[1]) - (PAYLOAD_START + 1) = P + CeilDiv7(P)

\* C7 amended: the last group is a whole 8-byte group: the P mod 7 data
\* bytes (modulo 128), zero bytes up to 7, and the collector as its 8th byte
\* with only the bits of the bytes present, so that the transcoded payload
\* has 8 * ceil(P/7) bytes; decode reads whole groups only, none of them
\* reaching the end marker, all ceil(P/7) of them, and gives back the payload
\* followed by the zero padding.
C7_PaddedLastGroup ==
    (Encoded /\ encoded.tag = "Ok") =>
        LET p == patched.value[1]
            e == encoded.value[1]
            P == Len(p)
            r == P % 7
            last == PAYLOAD_START + 8 * (CeilDiv7(P) - 1)
            f == FixedData(e)
        IN  /\ Len(e) - (PAYLOAD_START + 1) = 8 * CeilDiv7(P)
            /\ r # 0 =>
                  /\ \A i \in 1..r : e[last + i] = p[P - r + i] % 128
                  /\ \A i \in (r + 1)..7 : e[last + i] = 0
                  /\ \A i \in 1..r :
                        (e[last + 8] \div Pow2(i - 1)) % 2 = p[P - r + i] \div 128
                  /\ e[last + 8] < Pow2(r)
            /\ \A index \in DecodeChunks(e) : index + 8 <= Len(e) - 1
            /\ Cardinality(DecodeChunks(e)) = CeilDiv7(P)
            /\ Len(f) = 7 * CeilDiv7(P)
            /\ \A k \in 1..Len(f) : f[k] = IF k <= P THEN p[k] ELSE 0

\* a payload whose length is not a multiple of 7, with bit 7 set in its last chunk
C7_Witness ==
    /\ Encoded
    /\ encoded.tag = "Ok"
    /\ Len(patched.value[1]) % 7 # 0
    /\ encoded.value[1][Len(encoded.value[1]) - 1] # 0

\* C8: encode never panics on a default or decoded bank, edited or not; its
\* output starts with 0xF0, the manufacturer id, the global channel, the
\* device id and 0x0F and ends with 0xF7, and the payload buffer it fills
\* has at least 0x7EA bytes.
C8_EncodeTotal ==
    Encoded =>
        /\ patched.tag = "Ok"
        /\ encoded.tag = "Ok"
        /\ Len(patched.value[1]) >= 2026
        /\ LET e == encoded.value[1]
           IN  /\ SubSeq(e, 1, 7) =
                    <<240, sysex_message.manufacturer_id[1],
                      sysex_message.manufacturer_id[2],
                      sysex_message.manufacturer_id[3],
                      sysex_message.global_channel, sysex_message.device_id, 15>>
               /\ e[Len(e)] = 247

\* an edited bank that came from decode, and one that did not
C8_Witness ==
    /\ Encoded
    /\ edits > 0
    /\ encoded.tag = "Ok"
    /\ sysex_message.original_data # <<>>
    /\ Len(patched.value[1]) > 2026
    /\ sysex_message.manufacturer_id = <<1, 2, 3>>

\* the 16-byte windows of the buffer handed to decode
Windows == {SubSeq(data, PRESET_SIZE * w + 1, PRESET_SIZE * w + PRESET_SIZE) :
                w \in 0..((Len(data) \div PRESET_SIZE) - 1)}

\* C9: to_bytes gives 16 bytes: the 5 program changes, controller and value
\* of the 2 control changes, the 3 values of pedal A, the 3 of pedal B, the
\* note; from_bytes(to_bytes(p)) = p for every preset and
\* to_bytes(from_bytes(b)) = b for every 16 bytes, whatever their values.
C9_PresetLayout ==
    /\ \A slot \in 0..(NUM_PRESETS - 1) :
          LET p == sysex_message.presets[slot]
              b == to_bytes(p)
          IN  /\ Len(b) = 16
              /\ SubSeq(b, 1, 5) = p.program_changes
              /\ SubSeq(b, 6, 9) = p.control_changes[1] \o p.control_changes[2]
              /\ SubSeq(b, 10, 12) = p.expression_pedal_a
              /\ SubSeq(b, 13, 15) = p.expression_pedal_b
              /\ b[16] = p.note
              /\ from_bytes(b) = p
    /\ \A b \in Windows : to_bytes(from_bytes(b)) = b

\* the spec's example preset, and 16 bytes with values above 127
C9_Witness ==
    /\ sysex_message.presets[1] =
          [program_changes    |-> <<1, 2, 3, 4, 5>>,
           control_changes    |-> << <<10, 20>>, <<30, 40>> >>,
           expression_pedal_a |-> <<1, 2, 3>>,
           expression_pedal_b |-> <<4, 5, 6>>,
           note               |-> 7]
    /\ to_bytes(sysex_message.presets[1])
          = <<1, 2, 3, 4, 5, 10, 20, 30, 40, 1, 2, 3, 4, 5, 6, 7>>
    /\ from_bytes(<<1, 2, 3, 4, 5, 10, 20, 30, 40, 1, 2, 3, 4, 5, 6, 7>>)
          = sysex_message.presets[1]
    /\ sysex_message.presets[0].program_changes[3] = 255
    /\ \E b \in Windows : b[1] = 240

(***************************************************************************)
(* Spec: MidiApp.  The UI thread runs update(); its handlers take the      *)
(* Mutex around sysex_message for one statement and are single steps,      *)
(* enabled when the Mutex is free.  Each "Receive SysEx Message" click     *)
(* opens a connection, whose callback sends framed messages into a         *)
(* channel, and spawns a thread that receives one message, decodes it and  *)
(* stores the result.  The store `*guard = sysex_message` is not atomic    *)
(* for the machine: it is two steps here, both made holding the Mutex.     *)
(* Save / Load (the file system) and the port selection are left out.      *)
(***************************************************************************)
\* what the MIDI port delivers: a dump, a framed message that is too short,
\* a framed message with no payload, and an unframed one
PortMessages ==
    {Capture(<<"low", 291, 0>>), <<SYSEX_START, SYSEX_END>>,
     <<SYSEX_START, 1, 1, 1, 1, SYSEX_END>>, <<1, 2>>}

\* the field the editor changes in this specification
UIEdits == {<<NUM_PRESETS - 1, <<"note", 0>>, 127>>}

Received(m) == [tag |-> "Msg", err |-> "", value |-> <<m>>]

Init ==
    /\ step = "input"
    /\ data = <<>>
    /\ result = NotCalled
    /\ patched = NotCalled
    /\ encoded = NotCalled
    /\ redecoded = NotCalled
    /\ sysex_message = Default
    /\ edits = 0
    /\ AppInit

\* if ui.button("Receive SysEx Message").clicked()
UIReceive ==
    /\ sessions < MaxSessions
    /\ sessions' = sessions + 1
    /\ midi_in_connection' = sessions + 1
    /\ receiving_sysex' = TRUE
    /\ pc' = [pc EXCEPT ![sessions + 1] = "recv"]
    /\ UNCHANGED <<codecVars, sysex_message, edits, mutex, chan, local,
                   arrivals, cancelled>>

\* the connection's callback: a framed message is sent to the session's
\* channel; the send fails, and the message is lost, once the thread is gone.
Callback(m) ==
    /\ midi_in_connection # 0
    /\ arrivals < MaxArrivals
    /\ arrivals' = arrivals + 1
    /\ IF m[1] = SYSEX_START /\ m[Len(m)] = SYSEX_END
          /\ pc[midi_in_connection] # "done"
       THEN chan' = [chan EXCEPT ![midi_in_connection] = Append(@, m)]
       ELSE UNCHANGED chan
    /\ UNCHANGED <<codecVars, sysex_message, edits, mutex, receiving_sysex,
                   midi_in_connection, sessions, pc, local, cancelled>>

\* if let Ok(message) = receiver.recv(): a message, or Err once the
\* connection (the sender) is dropped and the channel is empty
ThreadRecv(s) ==
    /\ pc[s] = "recv"
    /\ IF chan[s] # <<>>
       THEN /\ local' = [local EXCEPT ![s] = Received(Head(chan[s]))]
            /\ chan' = [chan EXCEPT ![s] = Tail(@)]
            /\ pc' = [pc EXCEPT ![s] = "decode"]
       ELSE /\ midi_in_connection # s
            /\ pc' = [pc EXCEPT ![s] = "done"]
            /\ UNCHANGED <<chan, local>>
    /\ UNCHANGED <<codecVars, sysex_message, edits, mutex, receiving_sysex,
                   midi_in_connection, sessions, arrivals, cancelled>>

\* Mutant of ThreadDecode: a thread whose decode fails goes on to clear the
\* flag.
ThreadDecodeClears(s) ==
    /\ pc[s] = "decode"
    /\ local' = [local EXCEPT ![s] = decode(local[s].value[1])]
    /\ pc' = [pc EXCEPT ![s] = IF local'[s].tag = "Ok" THEN "lock" ELSE "flag"]
    /\ UNCHANGED <<codecVars, sysex_message, edits, mutex, receiving_sysex,
                   midi_in_connection, sessions, chan, arrivals, cancelled>>

\* if let Ok(sysex_message) = SysExMessage::decode(&message): on Err the
\* thread ends; a panic ends it too, before it takes any lock
ThreadDecode(s) ==
    /\ pc[s] = "decode"
    /\ local' = [local EXCEPT ![s] = decode(local[s].value[1])]
    /\ pc' = [pc EXCEPT ![s] = IF local'[s].tag = "Ok" THEN "lock" ELSE "done"]
    /\ UNCHANGED <<codecVars, sysex_message, edits, mutex, receiving_sysex,
                   midi_in_connection, sessions, chan, arrivals, cancelled>>

\* sysex_message_clone.lock().unwrap()
ThreadLock(s) ==
    /\ pc[s] = "lock"
    /\ mutex = 0
    /\ mutex' = s
    /\ pc' = [pc EXCEPT ![s] = "store"]
    /\ UNCHANGED <<codecVars, sysex_message, edits, receiving_sysex,
                   midi_in_connection, sessions, chan, local, arrivals, cancelled>>

\* *guard = sysex_message, first part: the fields up to the presets
ThreadStore(s) ==
    /\ pc[s] = "store"
    /\ sysex_message' =
          [sysex_message EXCEPT
              !.start_byte = local[s].value[1].start_byte,
              !.manufacturer_id = local[s].value[1].manufacturer_id,
              !.global_channel = local[s].value[1].global_channel,
              !.device_id = local[s].value[1].device_id,
              !.presets = local[s].value[1].presets]
    /\ pc' = [pc EXCEPT ![s] = "store2"]
    /\ UNCHANGED <<codecVars, edits, mutex, receiving_sysex, midi_in_connection,
                   sessions, chan, local, arrivals, cancelled>>

\* *guard = sysex_message, the rest; the guard is dropped with the statement
ThreadStoreRest(s) ==
    /\ pc[s] = "store2"
    /\ sysex_message' = local[s].value[1]
    /\ mutex' = IF mutex = s THEN 0 ELSE mutex
    /\ pc' = [pc EXCEPT ![s] = "flag"]
    /\ UNCHANGED <<codecVars, edits, receiving_sysex, midi_in_connection,
                   sessions, chan, local, arrivals, cancelled>>

\* *receiving_sysex_clone.lock().unwrap() = false
ThreadClearFlag(s) ==
    /\ pc[s] = "flag"
    /\ receiving_sysex' = FALSE
    /\ pc' = [pc EXCEPT ![s] = "done"]
    /\ UNCHANGED <<codecVars, sysex_message, edits, mutex, midi_in_connection,
                   sessions, chan, local, arrivals, cancelled>>

\* the preset grid: a DragValue changes one field, under the lock
UIEdit(slot, f, v) ==
    /\ mutex = 0
    /\ edits < MaxEdits
    /\ edits' = edits + 1
    /\ sysex_message' = EditBank(sysex_message, slot, f, v)
    /\ UNCHANGED <<codecVars, appVars>>

\* if ui.button("Send SysEx Message").clicked(): encode under the lock
\* (the first Send is followed)
UISend ==
    /\ mutex = 0
    /\ encoded = NotCalled
    /\ encoded' = encode(sysex_message)
    /\ UNCHANGED <<step, data, result, patched, redecoded, sysex_message, edits,
                   appVars>>

\* the "Receiving SysEx" window is shown while the flag is set;
\* if ui.button("Cancel").clicked()
UICancel ==
    /\ receiving_sysex
    /\ receiving_sysex' = FALSE
    /\ midi_in_connection' = 0
    /\ cancelled' = cancelled \cup
          {s \in Sessions : /\ s = midi_in_connection
                            /\ pc[s] = "recv"
                            /\ chan[s] = <<>>}
    /\ UNCHANGED <<codecVars, sysex_message, edits, mutex, sessions, chan, pc,
                   local, arrivals>>

Next ==
    \/ UIReceive
    \/ \E m \in PortMessages : Callback(m)
    \/ \E s \in Sessions : ThreadRecv(s)
    \/ \E s \in Sessions : ThreadDecode(s)
    \/ \E s \in Sessions : ThreadLock(s)
    \/ \E s \in Sessions : ThreadStore(s)
    \/ \E s \in Sessions : ThreadStoreRest(s)
    \/ \E s \in Sessions : ThreadClearFlag(s)
    \/ \E e \in UIEdits : UIEdit(e[1], e[2], e[3])
    \/ UISend
    \/ UICancel

Spec == Init /\ [][Next]_vars

\* MidiApp without Send, which takes the lock, reads the bank and changes
\* nothing but `encoded`: the receive sessions, Cancel and the editor.
ReceiveNext ==
    \/ UIReceive
    \/ \E m \in PortMessages : Callback(m)
    \/ \E s \in Sessions : ThreadRecv(s)
    \/ \E s \in Sessions : ThreadDecode(s)
    \/ \E s \in Sessions : ThreadLock(s)
    \/ \E s \in Sessions : ThreadStore(s)
    \/ \E s \in Sessions : ThreadStoreRest(s)
    \/ \E s \in Sessions : ThreadClearFlag(s)
    \/ \E e \in UIEdits : UIEdit(e[1], e[2], e[3])
    \/ UICancel

ReceiveSpec == Init /\ [][ReceiveNext]_vars

(***************************************************************************)
(* Properties of the receive session, checked under Spec.                  *)
(***************************************************************************)
\* A bank is whole when all its fields come from one source: the default
\* bank, or the decode of the message it keeps in original_data; the editor
\* has changed at most `edits` presets since.
Whole(self) ==
    LET from == IF self.original_data = <<>> THEN Default
                ELSE DecodeBody(self.original_data[1]).value[1]
    IN  /\ self.start_byte = from.start_byte
        /\ self.manufacturer_id = from.manufacturer_id
        /\ self.global_channel = from.global_channel
        /\ self.device_id = from.device_id
        /\ self.global_channels = from.global_channels
        /\ self.end_byte = from.end_byte
        /\ Cardinality({slot \in 0..(NUM_PRESETS - 1) :
                            self.presets[slot] # from.presets[slot]}) <= edits

\* whoever takes the lock finds a whole bank
NoTornBank == mutex = 0 => Whole(sysex_message)

\* a session waiting for its message can be cancelled: the window with the
\* Cancel button is shown
CancelAvailable ==
    (midi_in_connection # 0 /\ pc[midi_in_connection] = "recv") => receiving_sysex

\* a session cancelled before any message had arrived never receives one,
\* and so never stores a bank
CancelKeepsBank ==
    \A s \in cancelled :
        pc[s] \in {"recv", "done"} /\ chan[s] = <<>> /\ local[s] = NotCalled

\* C10: in every interleaving of the receive threads, the editor, Send and
\* Cancel, a lock holder sees a whole bank; a receive session can be
\* cancelled at any point; and a session cancelled before a message had
\* arrived leaves the bank as it was.
C10_NoTornBankUnderCancel ==
    /\ NoTornBank
    /\ CancelAvailable
    /\ CancelKeepsBank

(***************************************************************************)
(* The receiving flag of a session, checked under ReceiveSpec.             *)
(***************************************************************************)
\* decode refused the buffer received by session s, or panicked on it
DecodeFailed(s) == local[s].tag \in {"Err", "Panic"}

\* the thread of session s has replaced the shared bank with the bank it
\* decoded
Stored(s) == local[s].tag = "Ok" /\ pc[s] \in {"flag", "done"}

\* the click on "Receive SysEx Message" leaves the flag set
ReceiveSetsFlag == sessions' # sessions => receiving_sysex'

\* a thread is handed a buffer once, as its first step after waiting
OneBufferPerSession ==
    \A s \in Sessions :
        /\ (local'[s].tag = "Msg" /\ local'[s] # local[s])
              => (pc[s] = "recv" /\ local[s] = NotCalled)
        /\ (pc'[s] = "decode" /\ pc[s] # "decode")
              => (pc[s] = "recv" /\ local[s] = NotCalled)
        /\ pc[s] = "done" => pc'[s] = "done"

\* the flag is cleared by Cancel, or by a thread that has stored the bank it
\* decoded
FlagClearedBy ==
    (receiving_sysex /\ ~receiving_sysex')
        => \/ /\ midi_in_connection' = 0
              /\ pc' = pc
              /\ sysex_message' = sysex_message
           \/ \E s \in Sessions :
                 /\ pc[s] = "flag" /\ pc'[s] = "done"
                 /\ Stored(s)
                 /\ sysex_message.original_data # <<>>

\* a decode that fails ends the thread, and changes neither bank nor flag
FailedDecodeKeeps ==
    \A s \in Sessions :
        (pc[s] = "decode" /\ pc'[s] # "decode" /\ local'[s].tag # "Ok")
            => /\ DecodeFailed(s)'
               /\ pc'[s] = "done"
               /\ sysex_message' = sysex_message
               /\ receiving_sysex' = receiving_sysex

\* the bank is changed by the editor, or by a thread whose decode succeeded
BankChangedBy ==
    sysex_message' # sysex_message
        => \/ edits' # edits
           \/ \E s \in Sessions :
                 local[s].tag = "Ok" /\ pc[s] \in {"store", "store2"}

\* while no thread has stored a bank, the bank holds no received data and,
\* unless Cancel was the last click, the flag of a started session is set
FailedStaysSet ==
    (\A s \in Sessions : ~Stored(s) /\ pc[s] # "store2")
        => /\ sysex_message.original_data = <<>>
           /\ (sessions > 0 /\ midi_in_connection # 0) => receiving_sysex

====
